---- MODULE Spec2Model ----
(***************************************************************************)
(* Model of the order transform helpers (getSummary and the orderTransform *)
(* accessors) and of the GridItemControls component.                       *)
(*                                                                         *)
(* JavaScript values are tagged records: field t holds the kind.  Numbers  *)
(* are exact decimals v * 10^-e kept in normal form, so that sums,         *)
(* products and the rounding of accounting.toFixed are computed the way    *)
(* the code computes them; binary floating point error is not modelled.    *)
(* A property that is absent from an object reads as undefined, exactly as *)
(* a property that holds undefined.                                        *)
(***************************************************************************)
EXTENDS Integers, Sequences, FiniteSets, TLC

VARIABLES order, shops, called, args, result, lookups, props, rendered

vars == <<order, shops, called, args, result, lookups, props, rendered>>

(***************************************************************************)
(* Bounds                                                                  *)
(***************************************************************************)
MaxItems == 3

(***************************************************************************)
(* JavaScript values                                                       *)
(***************************************************************************)
Undef == [t |-> "undefined"]

NaN == [t |-> "NaN"]

Throw == [t |-> "throw"]

RECURSIVE Norm(_, _)
Norm(v, e) ==
  IF e > 0 /\ v % 10 = 0 THEN Norm(v \div 10, e - 1)
  ELSE [t |-> "number", v |-> v, e |-> e]

Num(v, e) == Norm(v, e)

Str(s) == [t |-> "string", s |-> s]

Fixed(c) == [t |-> "string", fixed |-> c]

Arr(a) == [t |-> "array", a |-> a]

Bool(b) == [t |-> "boolean", b |-> b]

Null == [t |-> "null"]

IsNumber(x) == x.t = "number"

IsThrow(x) == "t" \in DOMAIN x /\ x.t = "throw"

IsArray(x) == x.t = "array"

Truthy(x) ==
  CASE x.t = "undefined" -> FALSE
    [] x.t = "NaN" -> FALSE
    [] x.t = "number" -> x.v # 0
    [] x.t = "boolean" -> x.b
    [] x.t = "null" -> FALSE
    [] OTHER -> TRUE

Or(a, b) == IF Truthy(a) THEN a ELSE b

Get(obj, k) ==
  IF obj.t \in {"throw", "undefined"} THEN Throw
  ELSE IF k \in DOMAIN obj THEN obj[k] ELSE Undef

Max2(a, b) == IF a >= b THEN a ELSE b

Add(a, b) ==
  IF IsThrow(a) \/ IsThrow(b) THEN Throw
  ELSE IF ~IsNumber(a) \/ ~IsNumber(b) THEN NaN
  ELSE LET e == Max2(a.e, b.e)
       IN Norm(a.v * 10^(e - a.e) + b.v * 10^(e - b.e), e)

Sub(a, b) ==
  IF IsThrow(a) \/ IsThrow(b) THEN Throw
  ELSE IF ~IsNumber(a) \/ ~IsNumber(b) THEN NaN
  ELSE LET e == Max2(a.e, b.e)
       IN Norm(a.v * 10^(e - a.e) - b.v * 10^(e - b.e), e)

Mul(a, b) ==
  IF IsThrow(a) \/ IsThrow(b) THEN Throw
  ELSE IF ~IsNumber(a) \/ ~IsNumber(b) THEN NaN
  ELSE Norm(a.v * b.v, a.e + b.e)

MathMax(a, b) ==
  IF ~IsNumber(a) \/ ~IsNumber(b) THEN NaN
  ELSE IF Sub(a, b).v >= 0 THEN a ELSE b

\* accounting.toFixed(value, precision): Math.round((value + 1e-8) * 10^p) / 10^p
\* printed with p digits; Math.round rounds halves up.
toFixed(value, precision) ==
  IF ~IsNumber(value) THEN Str("NaN")
  ELSE LET p == 10^precision
           d == 10^value.e
       IN Fixed((2 * value.v * p + d) \div (2 * d))

parseFloat(s) ==
  IF s.t = "string" /\ "fixed" \in DOMAIN s THEN Norm(s.fixed, 2) ELSE NaN

(***************************************************************************)
(* getSummary                                                              *)
(***************************************************************************)
PropValue(item, p) ==
  IF Len(p.a) = 1 THEN Get(item, p.a[1])
  ELSE Get(Get(item, p.a[1]), p.a[2])

Weighted(sum, item, prop, prop2) ==
  Add(sum, Mul(Get(item, prop.a[1]), PropValue(item, prop2)))

\* the reduce callback dropping the running sum on the single-path branch
SummaryStepNoSum(sum, item, prop, prop2, shopId) ==
  IF Truthy(prop2)
  THEN IF Truthy(shopId)
       THEN IF shopId = Get(item, "shopId")
            THEN Weighted(sum, item, prop, prop2)
            ELSE sum
       ELSE Weighted(sum, item, prop, prop2)
  ELSE Add(Num(0, 0), PropValue(item, prop))

SummaryStep(sum, item, prop, prop2, shopId) ==
  IF Truthy(prop2)
  THEN IF Truthy(shopId)
       THEN IF shopId = Get(item, "shopId")
            THEN Weighted(sum, item, prop, prop2)
            ELSE sum
       ELSE Weighted(sum, item, prop, prop2)
  ELSE Add(sum, PropValue(item, prop))

RECURSIVE SummaryReduce(_, _, _, _, _, _)
SummaryReduce(a, i, sum, prop, prop2, shopId) ==
  IF i > Len(a) \/ IsThrow(sum) THEN sum
  ELSE SummaryReduce(a, i + 1, SummaryStep(sum, a[i], prop, prop2, shopId),
                     prop, prop2, shopId)

getSummary(items, prop, prop2, shopId) ==
  IF IsArray(items)
  THEN LET r == SummaryReduce(items.a, 1, Num(0, 0), prop, prop2, shopId)
       IN IF IsThrow(r) THEN Num(0, 0) ELSE r
  ELSE Num(0, 0)

(***************************************************************************)
(* orderTransform accessors; this is the order record                      *)
(***************************************************************************)
Path1(a) == Arr(<<a>>)

Path2(a, b) == Arr(<<a, b>>)

KeyOf(v) == IF v.t = "string" /\ "s" \in DOMAIN v THEN v.s ELSE v.t

\* obj[key] = value on a plain object used as a map
Put(m, key, value) == [k \in DOMAIN m \cup {key} |-> IF k = key THEN value ELSE m[k]]

EmptyMap == [k \in {} |-> Undef]

Lookup(m, key) == IF key \in DOMAIN m THEN m[key] ELSE Undef

orderCount(this) == getSummary(Get(this, "items"), Path1("quantity"), Undef, Undef)

orderShipping(this) ==
  LET rate == getSummary(Get(this, "shipping"), Path2("shipmentMethod", "rate"), Undef, Undef)
      handling == getSummary(Get(this, "shipping"), Path2("shipmentMethod", "handling"), Undef, Undef)
      shipping == Or(Add(handling, rate), Num(0, 0))
  IN toFixed(shipping, 2)

RECURSIVE ShippingByShopLoop(_, _, _)
ShippingByShopLoop(b, i, billingObject) ==
  IF i > Len(b) THEN billingObject
  ELSE LET value == Get(Get(b[i], "invoice"), "shipping")
       IN IF IsThrow(value) THEN Throw
          ELSE ShippingByShopLoop(b, i + 1, Put(billingObject, KeyOf(Get(b[i], "shopId")), value))

orderShippingByShop(this) ==
  IF ~IsArray(Get(this, "billing")) THEN Throw
  ELSE ShippingByShopLoop(Get(this, "billing").a, 1, EmptyMap)

orderSubTotal(this) ==
  LET subTotal == getSummary(Get(this, "items"), Path1("quantity"), Path2("variants", "price"), Undef)
  IN toFixed(subTotal, 2)

\* the callback summing the first-seen item alone instead of all items of its shop
SubTotalByShopStepOwnItem(this, uniqueShopSubTotals, item) ==
  IF ~Truthy(Lookup(uniqueShopSubTotals, KeyOf(Get(item, "shopId"))))
  THEN LET subTotal == getSummary(Arr(<<item>>), Path1("quantity"),
                                  Path2("variants", "price"), Get(item, "shopId"))
       IN Put(uniqueShopSubTotals, KeyOf(Get(item, "shopId")), toFixed(subTotal, 2))
  ELSE uniqueShopSubTotals

SubTotalByShopStep(this, uniqueShopSubTotals, item) ==
  IF ~Truthy(Lookup(uniqueShopSubTotals, KeyOf(Get(item, "shopId"))))
  THEN LET subTotal == getSummary(Get(this, "items"), Path1("quantity"),
                                  Path2("variants", "price"), Get(item, "shopId"))
       IN Put(uniqueShopSubTotals, KeyOf(Get(item, "shopId")), toFixed(subTotal, 2))
  ELSE uniqueShopSubTotals

RECURSIVE SubTotalByShopReduce(_, _, _, _)
SubTotalByShopReduce(this, a, i, acc) ==
  IF i > Len(a) THEN acc
  ELSE SubTotalByShopReduce(this, a, i + 1, SubTotalByShopStep(this, acc, a[i]))

orderSubTotalByShop(this) ==
  IF ~IsArray(Get(this, "items")) THEN Throw
  ELSE SubTotalByShopReduce(this, Get(this, "items").a, 1, EmptyMap)

orderTaxes(this) ==
  LET tax == Or(Get(this, "tax"), Num(0, 0))
      subTotal == parseFloat(orderSubTotal(this))
      taxTotal == Mul(subTotal, tax)
  IN toFixed(taxTotal, 2)

RECURSIVE TaxesByShopLoop(_, _, _)
TaxesByShopLoop(b, i, billingObject) ==
  IF i > Len(b) THEN billingObject
  ELSE LET value == Get(Get(b[i], "invoice"), "taxes")
       IN IF IsThrow(value) THEN Throw
          ELSE TaxesByShopLoop(b, i + 1,
                 Put(billingObject, KeyOf(Get(b[i], "shopId")), toFixed(value, 2)))

orderTaxesByShop(this) ==
  IF ~IsArray(Get(this, "billing")) THEN Throw
  ELSE TaxesByShopLoop(Get(this, "billing").a, 1, EmptyMap)

orderDiscounts(this) ==
  LET discount == Or(Get(this, "discount"), Num(0, 0))
  IN toFixed(discount, 2)

\* orderTotal with the discount subtracted without the floor at 0
orderTotalNoFloor(this) ==
  LET subTotal == parseFloat(orderSubTotal(this))
      shipping == parseFloat(orderShipping(this))
      taxes == parseFloat(orderTaxes(this))
      discount == parseFloat(orderDiscounts(this))
      discountTotal == Sub(subTotal, discount)
      total == Add(Add(discountTotal, shipping), taxes)
  IN toFixed(total, 2)

orderTotal(this) ==
  LET subTotal == parseFloat(orderSubTotal(this))
      shipping == parseFloat(orderShipping(this))
      taxes == parseFloat(orderTaxes(this))
      discount == parseFloat(orderDiscounts(this))
      discountTotal == MathMax(Num(0, 0), Sub(subTotal, discount))
      total == Add(Add(discountTotal, shipping), taxes)
  IN toFixed(total, 2)

PaymentMethodObject(method) ==
  IF IsThrow(Get(method, "storedCard")) THEN Throw
  ELSE [t |-> "object",
        storedCard |-> Get(method, "storedCard"),
        processor |-> Get(method, "processor"),
        mode |-> Get(method, "mode"),
        transactionId |-> Get(method, "transactionId"),
        amount |-> Get(method, "amount"),
        method |-> Get(method, "method")]

getPaymentMethods(this) ==
  IF ~IsArray(Get(this, "billing")) THEN Throw
  ELSE LET b == Get(this, "billing").a
           billingMethods == [i \in 1..Len(b) |-> Get(b[i], "paymentMethod")]
           methodObjects == [i \in 1..Len(b) |-> PaymentMethodObject(billingMethods[i])]
       IN IF \E i \in 1..Len(b) : IsThrow(methodObjects[i]) THEN Throw
          ELSE Arr(methodObjects)

(***************************************************************************)
(* getShopSummary.  Arrays that the method allocates live in a local heap: *)
(* heap[1] is the array this.items, every array literal [item] gets the    *)
(* next index, and push writes to the array its receiver refers to.        *)
(***************************************************************************)
\* the callback pushing a repeated shop's item onto this.items
groupItemPushThis(shopItems, item) ==
  LET k == KeyOf(Get(item, "shopId"))
  IN IF k \notin DOMAIN shopItems.ref
     THEN [keys |-> Append(shopItems.keys, k),
           ref |-> Put(shopItems.ref, k, Len(shopItems.heap) + 1),
           heap |-> Append(shopItems.heap, <<item>>)]
     ELSE [shopItems EXCEPT !.heap[1] = Append(@, item)]

groupItem(shopItems, item) ==
  LET k == KeyOf(Get(item, "shopId"))
  IN IF k \notin DOMAIN shopItems.ref
     THEN [keys |-> Append(shopItems.keys, k),
           ref |-> Put(shopItems.ref, k, Len(shopItems.heap) + 1),
           heap |-> Append(shopItems.heap, <<item>>)]
     ELSE [shopItems EXCEPT !.heap[shopItems.ref[k]] = Append(@, item)]

RECURSIVE GroupReduce(_, _, _)
GroupReduce(n, i, shopItems) ==
  IF i > n THEN shopItems
  ELSE GroupReduce(n, i + 1, groupItem(shopItems, shopItems.heap[1][i]))

\* one key per item instead of one per distinct shopId
ObjectKeysPerItem(shopItems) ==
  [i \in 1..Len(shopItems.heap[1]) |-> KeyOf(Get(shopItems.heap[1][i], "shopId"))]

\* Object.keys: own keys in insertion order (shop ids are not index-like)
ObjectKeys(shopItems) == shopItems.keys

findOne(collection, id) == IF id \in DOMAIN collection THEN collection[id] ELSE Undef

RECURSIVE QuantityReduce(_, _, _)
QuantityReduce(a, i, qty) ==
  IF i > Len(a) THEN qty
  ELSE QuantityReduce(a, i + 1, Add(qty, Get(a[i], "quantity")))

\* { [shop]: { name, subTotal, taxes, items, quantityTotal, shipping } }
shopObject(shop, collection, subTotalsByShop, taxesByShop, shippingByShop, itemsOfShop) ==
  LET inner == [t |-> "object",
                name |-> Get(findOne(collection, shop), "name"),
                subTotal |-> Lookup(subTotalsByShop, shop),
                taxes |-> Lookup(taxesByShop, shop),
                items |-> Arr(itemsOfShop),
                quantityTotal |-> QuantityReduce(itemsOfShop, 1, Num(0, 0)),
                shipping |-> Lookup(shippingByShop, shop)]
  IN [k \in {"t", shop} |-> IF k = "t" THEN "object" ELSE inner]

\* the strings the model uses as shop names, in ascending order
NameOrder == <<"Alpha", "Beta">>

StrRank(x) == CHOOSE i \in 1..Len(NameOrder) : NameOrder[i] = x.s

\* lodash compareAscending on sort keys: undefined sorts after every string
KeyLess(x, y) ==
  IF x.t = "string" /\ y.t = "string" THEN StrRank(x) < StrRank(y)
  ELSE x.t = "string" /\ y.t = "undefined"

\* the iteratee of the sortBy call: shopObject.name
SortKey(o) == Get(o, "name")

RECURSIVE InsertStable(_, _)
InsertStable(sorted, x) ==
  IF sorted = <<>> THEN <<x>>
  ELSE IF KeyLess(SortKey(x), SortKey(sorted[Len(sorted)]))
       THEN Append(InsertStable(SubSeq(sorted, 1, Len(sorted) - 1), x), sorted[Len(sorted)])
       ELSE Append(sorted, x)

RECURSIVE sortBy(_, _, _)
sortBy(a, i, sorted) ==
  IF i > Len(a) THEN sorted
  ELSE sortBy(a, i + 1, InsertStable(sorted, a[i]))

\* value: what the method returns; items: this.items afterwards;
\* lookups: the ids passed to Shops.findOne, in call order
getShopSummary(this, collection) ==
  LET taxesByShop == orderTaxesByShop(this)
      subTotalsByShop == orderSubTotalByShop(this)
      shippingByShop == orderShippingByShop(this)
  IN IF IsThrow(taxesByShop) \/ IsThrow(subTotalsByShop) \/ IsThrow(shippingByShop)
     THEN [value |-> Throw, items |-> Get(this, "items"), lookups |-> <<>>]
     ELSE LET a == Get(this, "items").a
              itemsByShop == GroupReduce(Len(a), 1,
                               [keys |-> <<>>, ref |-> EmptyMap, heap |-> <<a>>])
              keys == ObjectKeys(itemsByShop)
              shopObjects == [i \in 1..Len(keys) |->
                                shopObject(keys[i], collection, subTotalsByShop,
                                           taxesByShop, shippingByShop,
                                           itemsByShop.heap[itemsByShop.ref[keys[i]]])]
              sortedShopObjects == sortBy(shopObjects, 1, <<>>)
          IN [value |-> Arr(sortedShopObjects),
              items |-> Arr(itemsByShop.heap[1]),
              lookups |-> keys]

(***************************************************************************)
(* GridItemControls                                                        *)
(***************************************************************************)
\* the badge shown for every product, deleted or not
renderArchivedAlways(p) ==
  IF Truthy(Get(p, "product"))
  THEN [t |-> "element", type |-> "span", className |-> "badge badge-danger"]
  ELSE Undef

renderArchived(p) ==
  IF Truthy(Get(Get(p, "product"), "isDeleted"))
  THEN [t |-> "element", type |-> "span", className |-> "badge badge-danger"]
  ELSE Undef

renderVisibilityButton(p) ==
  IF Truthy(Get(p, "hasChanges"))
  THEN [t |-> "element", type |-> "div", className |-> ""]
  ELSE Undef

render(p) ==
  IF Truthy(Get(p, "hasCreateProductPermission"))
  THEN [t |-> "element", type |-> "div", className |-> "product-grid-controls",
        children |-> <<[t |-> "element", type |-> "label", className |-> "like-button hidden",
                        input |-> [type |-> "checkbox",
                                   value |-> Get(Get(p, "product"), "_id"),
                                   checked |-> Get(p, "checked")]],
                       renderArchived(p),
                       renderVisibilityButton(p)>>]
  ELSE Null

(***************************************************************************)
(* The order records and shop collections the model starts from            *)
(***************************************************************************)
ShopIds == {"sA", "sB"}

Item(shop, quantity, variants) ==
  [t |-> "object", shopId |-> Str(shop), quantity |-> quantity, variants |-> variants]

Variants(price) == [t |-> "object", price |-> price]

\* prices 1.005 and 2.5; quantities 1 and 2; a line item may lack its
\* quantity, its variants or the price of its variants
ItemKinds ==
  { Item("sA", Num(1, 0), Variants(Num(1005, 3))),
    Item("sA", Undef, Variants(Num(1005, 3))),
    Item("sA", Num(1, 0), Undef),
    Item("sA", Num(1, 0), Variants(Undef)),
    Item("sB", Num(2, 0), Variants(Num(25, 1))) }

SeqsUpTo(S, n) == UNION {[1..k -> S] : k \in 0..n}

ItemsChoices == {Undef} \cup {Arr(a) : a \in SeqsUpTo(ItemKinds, MaxItems)}

Shipment(rate, handling) ==
  [t |-> "object", shipmentMethod |-> [t |-> "object", rate |-> rate, handling |-> handling]]

ShippingChoices ==
  { Undef,
    Arr(<<>>),
    Arr(<<Shipment(Num(45, 1), Num(75, 2))>>),
    Arr(<<Shipment(Undef, Num(75, 2))>>),
    Arr(<<[t |-> "object", shipmentMethod |-> Undef]>>),
    Arr(<<Shipment(Num(45, 1), Num(75, 2)), Shipment(Num(3, 0), Undef)>>) }

TaxChoices == {Undef, Num(75, 3)}

DiscountChoices == {Undef, Num(5, 1), Num(100, 0)}

PaymentMethod(amount) ==
  [t |-> "object", storedCard |-> Str("Visa 4242"), processor |-> Str("Example"),
   mode |-> Str("authorize"), transactionId |-> Str("txn"), amount |-> amount,
   method |-> Str("credit"), status |-> Str("created")]

Billing(shop, shipping, taxes, amount) ==
  [t |-> "object", shopId |-> Str(shop),
   invoice |-> [t |-> "object", shipping |-> shipping, taxes |-> taxes],
   paymentMethod |-> PaymentMethod(amount)]

BillingChoices ==
  { Undef,
    Arr(<<>>),
    Arr(<<Billing("sA", Num(45, 1), Num(151, 3), Num(7, 0))>>),
    Arr(<<Billing("sA", Num(45, 1), Num(151, 3), Num(7, 0)),
          Billing("sB", Num(3, 0), Undef, Num(5, 0))>>),
    Arr(<<[t |-> "object", shopId |-> Str("sA"), invoice |-> Undef, paymentMethod |-> Undef]>>) }

Shop(name) == [t |-> "object", name |-> Str(name)]

ShopsChoices ==
  { [id \in ShopIds |-> Shop(IF id = "sA" THEN "Alpha" ELSE "Beta")],
    [id \in ShopIds |-> Shop(IF id = "sA" THEN "Beta" ELSE "Alpha")] }

Order(items, shipping, billing, tax, discount) ==
  [t |-> "object", items |-> items, shipping |-> shipping, billing |-> billing,
   tax |-> tax, discount |-> discount]

DefaultBilling ==
  Arr(<<Billing("sA", Num(45, 1), Num(151, 3), Num(7, 0)),
        Billing("sB", Num(3, 0), Undef, Num(5, 0))>>)

DefaultShops == [id \in ShopIds |-> Shop(IF id = "sA" THEN "Alpha" ELSE "Beta")]

\* every combination of the fields the totals read, and every combination
\* of the fields the per-shop summaries read
TotalsOrders ==
  { Order(i, s, DefaultBilling, x, d) :
      i \in ItemsChoices, s \in ShippingChoices, x \in TaxChoices, d \in DiscountChoices }

SummaryOrders ==
  { Order(i, Arr(<<>>), b, Undef, Undef) : i \in ItemsChoices, b \in BillingChoices }

NoArgs == [t |-> "none"]

NoResult == [t |-> "none"]

Unmounted == [t |-> "unmounted"]

Props(id, deleted, checked, changes, permission) ==
  [t |-> "object", product |-> [t |-> "object", _id |-> Str(id), isDeleted |-> deleted],
   checked |-> Bool(checked), hasChanges |-> Bool(changes),
   hasCreateProductPermission |-> Bool(permission)]

PropsChoices ==
  { Props(id, d, c, h, p) : id \in {"p1", "p2", "p3"}, d \in {Undef, Bool(FALSE), Bool(TRUE)},
                            c \in BOOLEAN, h \in BOOLEAN, p \in BOOLEAN }

DefaultProps == Props("p1", Undef, FALSE, FALSE, FALSE)

(***************************************************************************)
(* The accessors as operations on one order record                         *)
(***************************************************************************)
Init ==
  /\ \/ order \in TotalsOrders /\ shops = DefaultShops
     \/ order \in SummaryOrders /\ shops \in ShopsChoices
  /\ called = "idle"
  /\ args = NoArgs
  /\ result = NoResult
  /\ lookups = <<>>
  /\ props = DefaultProps
  /\ rendered = Unmounted

Callable(name) == called \in {"idle", name}

Returns(name, value) ==
  /\ Callable(name)
  /\ called' = name
  /\ args' = NoArgs
  /\ result' = value
  /\ UNCHANGED <<order, shops, lookups, props, rendered>>

OrderCount == Returns("orderCount", orderCount(order))

OrderShipping == Returns("orderShipping", orderShipping(order))

OrderShippingByShop == Returns("orderShippingByShop", orderShippingByShop(order))

OrderSubTotal == Returns("orderSubTotal", orderSubTotal(order))

OrderSubTotalByShop == Returns("orderSubTotalByShop", orderSubTotalByShop(order))

OrderTaxes == Returns("orderTaxes", orderTaxes(order))

OrderTaxesByShop == Returns("orderTaxesByShop", orderTaxesByShop(order))

OrderDiscounts == Returns("orderDiscounts", orderDiscounts(order))

OrderTotal == Returns("orderTotal", orderTotal(order))

GetPaymentMethods == Returns("getPaymentMethods", getPaymentMethods(order))

GetShopSummary ==
  /\ Callable("getShopSummary")
  /\ LET r == getShopSummary(order, shops)
     IN /\ result' = r.value
        /\ order' = [order EXCEPT !.items = r.items]
        /\ lookups' = r.lookups
  /\ called' = "getShopSummary"
  /\ args' = NoArgs
  /\ UNCHANGED <<shops, props, rendered>>

\* the argument lists with which the accessors call getSummary
SummaryArgs ==
  { [on |-> "items", prop |-> Path1("quantity"), prop2 |-> Undef, shopId |-> Undef],
    [on |-> "shipping", prop |-> Path2("shipmentMethod", "rate"), prop2 |-> Undef, shopId |-> Undef],
    [on |-> "shipping", prop |-> Path2("shipmentMethod", "handling"), prop2 |-> Undef, shopId |-> Undef],
    [on |-> "items", prop |-> Path1("quantity"), prop2 |-> Path2("variants", "price"), shopId |-> Undef] }
  \cup
  { [on |-> "items", prop |-> Path1("quantity"), prop2 |-> Path2("variants", "price"), shopId |-> Str(id)] :
      id \in ShopIds }

GetSummary ==
  /\ called = "idle"
  /\ \E a \in SummaryArgs :
       /\ args' = a
       /\ result' = getSummary(Get(order, a.on), a.prop, a.prop2, a.shopId)
  /\ called' = "getSummary"
  /\ UNCHANGED <<order, shops, lookups, props, rendered>>

\* the caller is done with the value and the record is at rest again
Return ==
  /\ called # "idle"
  /\ called' = "idle"
  /\ args' = NoArgs
  /\ result' = NoResult
  /\ lookups' = <<>>
  /\ UNCHANGED <<order, shops, props, rendered>>

Next ==
  \/ OrderCount
  \/ OrderShipping
  \/ OrderShippingByShop
  \/ OrderSubTotal
  \/ OrderSubTotalByShop
  \/ OrderTaxes
  \/ OrderTaxesByShop
  \/ OrderDiscounts
  \/ OrderTotal
  \/ GetShopSummary
  \/ GetPaymentMethods
  \/ GetSummary
  \/ Return

Spec == Init /\ [][Next]_vars

Raised == IsThrow(result)

(***************************************************************************)
(* GridItemControls mounted in a grid and re-rendered on new props         *)
(***************************************************************************)
InitGrid ==
  /\ order = Order(Arr(<<>>), Arr(<<>>), Arr(<<>>), Undef, Undef)
  /\ shops = DefaultShops
  /\ called = "idle"
  /\ args = NoArgs
  /\ result = NoResult
  /\ lookups = <<>>
  /\ props \in PropsChoices
  /\ rendered = Unmounted

Mount ==
  /\ rendered = Unmounted
  /\ rendered' = render(props)
  /\ UNCHANGED <<order, shops, called, args, result, lookups, props>>

Update ==
  /\ rendered # Unmounted
  /\ \E p \in PropsChoices :
       /\ props' = p
       /\ rendered' = render(p)
  /\ UNCHANGED <<order, shops, called, args, result, lookups>>

NextGrid ==
  \/ Mount
  \/ Update

SpecGrid == InitGrid /\ [][NextGrid]_vars

(***************************************************************************)
(* Properties                                                              *)
(***************************************************************************)
IsFixed(x) == "fixed" \in DOMAIN x

ItemsArray == IF IsArray(order.items) THEN order.items.a ELSE <<>>

HasQuantity(item) == IsNumber(Get(item, "quantity"))

HasPrice(item) == Get(item, "variants").t = "object" /\ IsNumber(Get(item, "variants").price)

RECURSIVE SumOf(_, _)
SumOf(f, S) ==
  IF S = {} THEN 0
  ELSE LET i == CHOOSE j \in S : TRUE IN f[i] + SumOf(f, S \ {i})

\* a decimal in thousandths (the model's numbers have at most three decimals)
Thousandths(x) == x.v * 10^(3 - x.e)

\* thousandths rounded half up to hundredths
ToCents(m) == (m + 5) \div 10

\* C1: orderTotal() equals max(0, orderSubTotal - orderDiscounts) + orderShipping
\* + orderTaxes, each taken as the accessor returns it, and is never negative;
\* when an operand is not a number the total is not a number either.
C1_OrderTotal ==
  called = "orderTotal" =>
    LET sub == orderSubTotal(order)
        disc == orderDiscounts(order)
        ship == orderShipping(order)
        tax == orderTaxes(order)
    IN IF IsFixed(sub) /\ IsFixed(disc) /\ IsFixed(ship) /\ IsFixed(tax)
       THEN /\ IsFixed(result)
            /\ result.fixed = Max2(0, sub.fixed - disc.fixed) + ship.fixed + tax.fixed
            /\ result.fixed >= 0
       ELSE result = Str("NaN")

C1_Witness ==
  /\ called = "orderTotal"
  /\ IsFixed(result) /\ IsFixed(orderSubTotal(order))
  /\ orderSubTotal(order).fixed > 0
  /\ orderDiscounts(order).fixed > orderSubTotal(order).fixed
  /\ orderShipping(order).fixed > 0
  /\ orderTaxes(order).fixed > 0

ShopName(entry) == entry[CHOOSE k \in DOMAIN entry : k # "t"].name

\* C2: the list getShopSummary() returns is ascending by shop name: the name
\* of each entry is <= the name of the next one.
C2_SortedByName ==
  (called = "getShopSummary" /\ ~Raised) =>
    \A i \in 1..(Len(result.a) - 1) :
      StrRank(ShopName(result.a[i])) <= StrRank(ShopName(result.a[i + 1]))

LacksField(item, path) ==
  \/ Get(item, path.a[1]) = Undef
  \/ Len(path.a) = 2 /\ Get(Get(item, path.a[1]), path.a[2]) = Undef

\* C3: getSummary returns exactly 0 when some item of the sequence lacks a
\* field that the requested paths need.
C3_MissingFieldGivesZero ==
  (/\ called = "getSummary"
   /\ IsArray(Get(order, args.on))
   /\ \E i \in 1..Len(Get(order, args.on).a) :
        \/ LacksField(Get(order, args.on).a[i], args.prop)
        \/ Truthy(args.prop2) /\ LacksField(Get(order, args.on).a[i], args.prop2))
  => result = Num(0, 0)

ShopSubTotalCents(shop) ==
  LET a == ItemsArray
      mine == {i \in 1..Len(a) : a[i].shopId = Str(shop)}
      line == [i \in 1..Len(a) |-> a[i].quantity.v * Thousandths(a[i].variants.price)]
  IN ToCents(SumOf(line, mine))

\* C4: orderSubTotalByShop() has exactly the distinct shopIds of items as
\* keys, and at each key the 2-decimal sum of quantity * variants.price over
\* the items of that shop, wherever those items stand in the sequence.
C4_SubTotalByShop ==
  (/\ called = "orderSubTotalByShop"
   /\ IsArray(order.items)
   /\ \A i \in 1..Len(ItemsArray) : HasQuantity(ItemsArray[i]) /\ HasPrice(ItemsArray[i]))
  => /\ ~Raised
     /\ DOMAIN result = {ItemsArray[i].shopId.s : i \in 1..Len(ItemsArray)}
     /\ \A shop \in DOMAIN result : result[shop] = Fixed(ShopSubTotalCents(shop))

C4_Witness ==
  /\ called = "orderSubTotalByShop"
  /\ Len(ItemsArray) = 3
  /\ \A i \in 1..3 : HasQuantity(ItemsArray[i]) /\ HasPrice(ItemsArray[i])
  /\ ItemsArray[1].shopId = ItemsArray[3].shopId
  /\ ItemsArray[1].shopId # ItemsArray[2].shopId
  /\ DOMAIN result = ShopIds
  /\ result["sA"] = Fixed(201)
  /\ result["sB"] = Fixed(500)

NineAccessors ==
  {"orderCount", "orderShipping", "orderShippingByShop", "orderSubTotal",
   "orderSubTotalByShop", "orderTaxes", "orderTaxesByShop", "orderDiscounts",
   "orderTotal"}

\* C5: when items, shipping, billing, tax or discount is absent from the
\* record, each of the nine accessors returns a value and does not raise.
C5_AbsentNeverRaises ==
  (/\ called \in NineAccessors
   /\ \E f \in {"items", "shipping", "billing", "tax", "discount"} : order[f] = Undef)
  => ~Raised

\* C6: orderCount() is the sum of the quantity of every item, 0 for no items.
C6_OrderCount ==
  (/\ called = "orderCount"
   /\ IsArray(order.items)
   /\ \A i \in 1..Len(ItemsArray) : HasQuantity(ItemsArray[i]))
  => /\ result = Num(SumOf([i \in 1..Len(ItemsArray) |-> ItemsArray[i].quantity.v],
                           1..Len(ItemsArray)), 0)
     /\ (ItemsArray = <<>> => result = Num(0, 0))

C6_Witness ==
  /\ called = "orderCount"
  /\ Len(ItemsArray) = 3
  /\ \A i \in 1..3 : HasQuantity(ItemsArray[i])
  /\ ItemsArray[1].quantity # ItemsArray[2].quantity
  /\ result = Num(4, 0)

PresentThousandths(x) == IF IsNumber(x) THEN Thousandths(x) ELSE 0

\* C7: a missing tax, discount, rate or handling counts as 0: orderTaxes() is
\* orderSubTotal * 0, orderDiscounts() is 0, and orderShipping() is the sum
\* of the rates and handlings that are present.
C7_MissingCountsAsZero ==
  /\ (called = "orderTaxes" /\ order.tax = Undef) =>
       result = (IF IsFixed(orderSubTotal(order)) THEN Fixed(0) ELSE Str("NaN"))
  /\ (called = "orderDiscounts" /\ order.discount = Undef) => result = Fixed(0)
  /\ (/\ called = "orderShipping"
      /\ IsArray(order.shipping)
      /\ \A i \in 1..Len(order.shipping.a) : order.shipping.a[i].shipmentMethod # Undef)
     => LET a == order.shipping.a
            each == [i \in 1..Len(a) |->
                       PresentThousandths(a[i].shipmentMethod.rate)
                       + PresentThousandths(a[i].shipmentMethod.handling)]
        IN result = Fixed(ToCents(SumOf(each, 1..Len(a))))

IsElement(x) == "t" \in DOMAIN x /\ x.t = "element"

Shows(tree, type, className) ==
  \E i \in 1..Len(tree.children) :
    /\ IsElement(tree.children[i])
    /\ tree.children[i].type = type
    /\ tree.children[i].className = className

\* C8: without the create-product permission nothing is rendered; with it the
\* checkbox is rendered, the Archived badge iff product.isDeleted is true and
\* the visibility block iff hasChanges() is true.
C8_Render ==
  rendered # Unmounted =>
    IF props.hasCreateProductPermission = Bool(FALSE)
    THEN rendered = Null
    ELSE /\ IsElement(rendered)
         /\ \E i \in 1..Len(rendered.children) :
              /\ IsElement(rendered.children[i])
              /\ rendered.children[i].type = "label"
              /\ rendered.children[i].input.type = "checkbox"
              /\ rendered.children[i].input.checked = props.checked
              /\ rendered.children[i].input.value = props.product._id
         /\ Shows(rendered, "span", "badge badge-danger") <=> props.product.isDeleted = Bool(TRUE)
         /\ Shows(rendered, "div", "") <=> props.hasChanges = Bool(TRUE)

C8_Witness ==
  /\ IsElement(rendered)
  /\ props.product.isDeleted = Bool(FALSE)
  /\ props.hasChanges = Bool(FALSE)
  /\ props.checked = Bool(TRUE)

Count(seq, x) == Cardinality({i \in 1..Len(seq) : seq[i] = x})

\* C9: one run of getShopSummary() calls Shops.findOne at most once per id
\* and only for ids of items; a run that returns has called it exactly once
\* for every distinct shopId of items.
C9_OneLookupPerShop ==
  called = "getShopSummary" =>
    \A id \in ShopIds :
      /\ Count(lookups, id) <= 1
      /\ Count(lookups, id) = 1 => \E i \in 1..Len(ItemsArray) : ItemsArray[i].shopId = Str(id)
      /\ (~Raised /\ \E i \in 1..Len(ItemsArray) : ItemsArray[i].shopId = Str(id))
           => Count(lookups, id) = 1

C9_Witness ==
  /\ called = "getShopSummary"
  /\ ~Raised
  /\ Len(ItemsArray) = 3
  /\ ItemsArray[1].shopId = ItemsArray[3].shopId
  /\ ItemsArray[1].shopId # ItemsArray[2].shopId
  /\ Len(lookups) = 2

\* C10: no accessor changes the record it is attached to (nor the shop
\* collection), and calling the same accessor again returns the same value.
C10_RecordUnchanged ==
  [][/\ order' = order
     /\ shops' = shops
     /\ (called' = called => result' = result)]_vars

C10_Witness ==
  /\ called = "getShopSummary"
  /\ ~Raised
  /\ \E i \in 1..Len(result.a) :
       \E k \in DOMAIN result.a[i] : k # "t" /\ Len(result.a[i][k].items.a) >= 2

====
